---- MODULE Spec2Model ----
(***************************************************************************)
(* StrellerMinds-Backend: the forum-topic creation payload                 *)
(* (src/src/forum/dto/create-forum-topic.dto.ts) and the operations        *)
(* Makefile (src/unnamed/part_000).                                        *)
(*                                                                         *)
(* Two state machines share the module:                                    *)
(*   SpecDto   a request body is received, instantiated as a               *)
(*             CreateForumTopicDto and validated by its decorators;        *)
(*   SpecMake  one run of `make <goal> [ALERTNAME=...]` with the default   *)
(*             options (serial, stop at the first failing recipe line).    *)
(***************************************************************************)
EXTENDS Integers, Sequences, FiniteSets, TLC

VARIABLES
    \* ---- DTO validation ----
    body,       \* the request body as received: field name -> JS value
    dto,        \* the CreateForumTopicDto instance handed to the validators
    errors,     \* the failing constraints, as <<field, decorator>> pairs
    dtoPhase,   \* "idle" | "received" | "accepted" | "rejected"
    \* ---- one run of make ----
    goal,       \* the goal named on the command line, "none" before the run
    alertname,  \* the value of the make variable ALERTNAME
    status,     \* "idle" | "running" | "ok" | "failed"
    pc,         \* index into Plan(goal) of the next recipe line
    inflight,   \* recipe lines whose shell has started and not yet exited
    exits,      \* recipe line -> exit status of its shell, for finished lines
    out,        \* what the run has printed on stdout, in order
    clock,      \* wall clock, in seconds since the run began
    stamps,     \* results of the $(shell date ...) calls, in evaluation order
    sleepLeft,  \* seconds the running `sleep` still has to wait
    waited,     \* seconds the last finished `sleep` actually waited
    probe,      \* outcome of the curl | jq pipeline of a health target
    posts,      \* number of POSTs curl has sent to AlertManager
    made,       \* directories created under backups/, by timestamp
    copied,     \* directories under backups/ that cp wrote into
    archived    \* timestamps carried by the tar archives written

dtoVars == <<body, dto, errors, dtoPhase>>

makeVars == <<goal, alertname, status, pc, inflight, exits, out, clock, stamps,
              sleepLeft, waited, probe, posts, made, copied, archived>>

vars == <<dtoVars, makeVars>>

Range(s) == {s[i] : i \in DOMAIN s}

(***************************************************************************)
(* JavaScript values, as far as the validators distinguish them.           *)
(* A string is its sequence of characters.                                 *)
(***************************************************************************)
Undefined == [t |-> "undefined", s |-> <<>>, b |-> FALSE, n |-> 0]

Null == [t |-> "null", s |-> <<>>, b |-> FALSE, n |-> 0]

Str(chars) == [t |-> "string", s |-> chars, b |-> FALSE, n |-> 0]

Bool(x) == [t |-> "boolean", s |-> <<>>, b |-> x, n |-> 0]

Num(x) == [t |-> "number", s |-> <<>>, b |-> FALSE, n |-> x]

\* ---- sample texts ----
UuidLower ==
    <<"5", "5", "0", "e", "8", "4", "0", "0", "-", "e", "2", "9", "b", "-",
      "4", "1", "d", "4", "-", "a", "7", "1", "6", "-", "4", "4", "6", "6",
      "5", "5", "4", "4", "0", "0", "0", "0">>

UuidUpper ==
    <<"6", "B", "A", "7", "B", "8", "1", "0", "-", "9", "D", "A", "D", "-",
      "1", "1", "D", "1", "-", "8", "0", "B", "4", "-", "0", "0", "C", "0",
      "4", "F", "D", "4", "3", "0", "C", "8">>

NoHyphens ==
    <<"5", "5", "0", "e", "8", "4", "0", "0", "e", "2", "9", "b", "4", "1",
      "d", "4", "a", "7", "1", "6", "4", "4", "6", "6", "5", "5", "4", "4",
      "0", "0", "0", "0">>

BadHex ==
    <<"5", "5", "0", "e", "8", "4", "0", "0", "-", "e", "2", "9", "b", "-",
      "4", "1", "d", "4", "-", "a", "7", "1", "6", "-", "4", "4", "6", "6",
      "5", "5", "4", "4", "0", "0", "0", "g">>

Word == <<"n", "o", "t", "-", "a", "-", "u", "u", "i", "d">>

Hello == <<"H", "e", "l", "l", "o">>

TrueText == <<"t", "r", "u", "e">>

\* The texts that are UUIDs, and those that are not, told apart by hand.
UuidTexts == {UuidLower, UuidUpper}

NonUuidTexts == {<<>>, Word, NoHyphens, BadHex}

\* ---- the values each field of the request body is drawn from ----
TitleValues == {Undefined, Null, Str(<<>>), Str(Hello), Num(42)}

FlagValues == {Undefined, Null, Bool(TRUE), Bool(FALSE), Str(TrueText)}

IdValues ==
    {Undefined, Null, Num(7)} \cup {Str(x) : x \in UuidTexts \cup NonUuidTexts}

Fields == {"title", "isPinned", "isClosed", "courseId", "categoryId"}

Payloads ==
    {[title |-> a, isPinned |-> p, isClosed |-> c, courseId |-> k, categoryId |-> g] :
        a \in TitleValues, p \in FlagValues, c \in FlagValues,
        k \in IdValues, g \in IdValues}

(***************************************************************************)
(* class-validator's checks, as the decorators of the DTO use them.        *)
(***************************************************************************)
HexDigits ==
    {"0", "1", "2", "3", "4", "5", "6", "7", "8", "9",
     "a", "b", "c", "d", "e", "f", "A", "B", "C", "D", "E", "F"}

\* typeof value === 'string'
IsString(v) == v.t = "string"

\* value !== '' && value !== null && value !== undefined
IsNotEmpty(v) == v # Str(<<>>) /\ v # Null /\ v # Undefined

\* typeof value === 'boolean'
IsBoolean(v) == v.t = "boolean"

\* typeof value === 'string' and the text matches
\* /^[0-9A-F]{8}-[0-9A-F]{4}-[0-9A-F]{4}-[0-9A-F]{4}-[0-9A-F]{12}$/i
IsUUID(v) ==
    /\ v.t = "string"
    /\ Len(v.s) = 36
    /\ \A i \in 1..Len(v.s) :
          IF i \in {9, 14, 19, 24} THEN v.s[i] = "-" ELSE v.s[i] \in HexDigits

\* @IsOptional() ignores every validator of the property when this holds.
IsEmptyValue(v) == v = Undefined \/ v = Null

Check(d, v) ==
    CASE d = "IsString" -> IsString(v)
      [] d = "IsNotEmpty" -> IsNotEmpty(v)
      [] d = "IsBoolean" -> IsBoolean(v)
      [] d = "IsUUID" -> IsUUID(v)

(***************************************************************************)
(* CreateForumTopicDto: the decorators on each property, preceded by       *)
(* variants of the table that differ from it in one decorator.             *)
(***************************************************************************)
DecoratorsTitleOnlyString(f) ==
    CASE f = "title" -> {"IsString"}
      [] f = "isPinned" -> {"IsOptional", "IsBoolean"}
      [] f = "isClosed" -> {"IsOptional", "IsBoolean"}
      [] f = "courseId" -> {"IsOptional", "IsUUID"}
      [] f = "categoryId" -> {"IsUUID"}

DecoratorsCategoryOptional(f) ==
    CASE f = "title" -> {"IsString", "IsNotEmpty"}
      [] f = "isPinned" -> {"IsOptional", "IsBoolean"}
      [] f = "isClosed" -> {"IsOptional", "IsBoolean"}
      [] f = "courseId" -> {"IsOptional", "IsUUID"}
      [] f = "categoryId" -> {"IsOptional", "IsUUID"}

DecoratorsCourseRequired(f) ==
    CASE f = "title" -> {"IsString", "IsNotEmpty"}
      [] f = "isPinned" -> {"IsOptional", "IsBoolean"}
      [] f = "isClosed" -> {"IsOptional", "IsBoolean"}
      [] f = "courseId" -> {"IsUUID"}
      [] f = "categoryId" -> {"IsUUID"}

DecoratorsCourseBoolean(f) ==
    CASE f = "title" -> {"IsString", "IsNotEmpty"}
      [] f = "isPinned" -> {"IsOptional", "IsBoolean"}
      [] f = "isClosed" -> {"IsOptional", "IsBoolean"}
      [] f = "courseId" -> {"IsOptional", "IsBoolean"}
      [] f = "categoryId" -> {"IsUUID"}

DecoratorsClosedUnchecked(f) ==
    CASE f = "title" -> {"IsString", "IsNotEmpty"}
      [] f = "isPinned" -> {"IsOptional", "IsBoolean"}
      [] f = "isClosed" -> {"IsOptional"}
      [] f = "courseId" -> {"IsOptional", "IsUUID"}
      [] f = "categoryId" -> {"IsUUID"}

Decorators(f) ==
    CASE f = "title" -> {"IsString", "IsNotEmpty"}
      [] f = "isPinned" -> {"IsOptional", "IsBoolean"}
      [] f = "isClosed" -> {"IsOptional", "IsBoolean"}
      [] f = "courseId" -> {"IsOptional", "IsUUID"}
      [] f = "categoryId" -> {"IsUUID"}

\* Variant: isPinned declared with the initialiser `= false`.
FieldDefaultPinnedFalse(f) == IF f = "isPinned" THEN Bool(FALSE) ELSE Undefined

\* The class declares no property initialiser: a property the request body
\* does not carry stays undefined on the instance.
FieldDefault(f) == Undefined

Instantiate(p) ==
    [f \in Fields |-> IF p[f] = Undefined THEN FieldDefault(f) ELSE p[f]]

\* The constraints of property f that object o fails.
FieldErrors(o, f) ==
    IF "IsOptional" \in Decorators(f) /\ IsEmptyValue(o[f])
    THEN {}
    ELSE {d \in Decorators(f) \ {"IsOptional"} : ~Check(d, o[f])}

ValidationErrors(o) ==
    UNION {{<<f, d>> : d \in FieldErrors(o, f)} : f \in Fields}

(***************************************************************************)
(* Initial state: no request received, no make run started.                *)
(***************************************************************************)
NoProbe == [ran |-> FALSE, curl |-> 0, text |-> "none", jq |-> 0]

Init ==
    /\ body = [f \in Fields |-> Undefined]
    /\ dto = [f \in Fields |-> Undefined]
    /\ errors = {}
    /\ dtoPhase = "idle"
    /\ goal = "none"
    /\ alertname = ""
    /\ status = "idle"
    /\ pc = 1
    /\ inflight = {}
    /\ exits = <<>>
    /\ out = <<>>
    /\ clock = 0
    /\ stamps = <<>>
    /\ sleepLeft = 0
    /\ waited = 0
    /\ probe = NoProbe
    /\ posts = 0
    /\ made = {}
    /\ copied = {}
    /\ archived = {}

(***************************************************************************)
(* DTO actions.                                                            *)
(***************************************************************************)
\* A request body arrives and is turned into a CreateForumTopicDto.
Receive ==
    /\ dtoPhase = "idle"
    /\ \E p \in Payloads :
          /\ body' = p
          /\ dto' = Instantiate(p)
    /\ dtoPhase' = "received"
    /\ UNCHANGED <<errors, makeVars>>

\* validate(dto): collects the failing constraints and leaves dto as it is.
Validate ==
    /\ dtoPhase = "received"
    /\ errors' = ValidationErrors(dto)
    /\ dtoPhase' = IF errors' = {} THEN "accepted" ELSE "rejected"
    /\ UNCHANGED <<body, dto, makeVars>>

NextDto == Receive \/ Validate

SpecDto == Init /\ [][NextDto]_vars

(***************************************************************************)
(* The Makefile: targets, prerequisites and recipe lines.  A recipe line   *)
(* is named by its line number in src/unnamed/part_000.                    *)
(***************************************************************************)
Goals ==
    {"install", "monitoring-up", "health", "health-live", "health-ready",
     "alerts-silence", "backup-config", "quick-start"}

\* ALERTNAME as given on the command line; "" when it is not given.
AlertNames == {"", "HighErrorRate"}

Recipe(t) ==
    CASE t = "install" -> <<22>>
      [] t = "monitoring-up" -> <<42, 43, 44, 45, 46, 47, 48, 49>>
      [] t = "health" -> <<61, 62>>
      [] t = "health-live" -> <<65, 66>>
      [] t = "health-ready" -> <<69, 70>>
      [] t = "alerts-silence" -> <<105, 106, 107, 108>>
      [] t = "backup-config" -> <<149, 150, 151, 152>>
      [] t = "quick-start" -> <<185, 186, 187, 188, 189>>

\* Variant: the two prerequisites of quick-start listed the other way round.
PrereqsSwapped(t) ==
    IF t = "quick-start" THEN <<"monitoring-up", "install">> ELSE <<>>

\* quick-start: install monitoring-up
Prereqs(t) ==
    IF t = "quick-start" THEN <<"install", "monitoring-up">> ELSE <<>>

RECURSIVE Flatten(_)
Flatten(ts) ==
    IF ts = <<>> THEN <<>> ELSE Recipe(Head(ts)) \o Flatten(Tail(ts))

\* Serial make: the prerequisites' recipes in the order listed, then the
\* goal's own recipe.
Plan(g) == IF g = "none" THEN <<>> ELSE Flatten(Prereqs(g)) \o Recipe(g)

EchoLines ==
    {42, 44, 46, 47, 48, 49, 61, 65, 69, 105, 106, 149, 185, 186, 187, 188, 189}

CommandLines == {22, 43, 45, 108, 150, 151, 152}

ProbeLines == {62, 66, 70}

GuardLines == {107}

Text(l) ==
    CASE l = 42 -> "Starting monitoring stack..."
      [] l = 44 -> "Waiting for services to be ready..."
      [] l = 46 -> "Monitoring stack is ready!"
      [] l = 47 -> "Grafana: http://localhost:3001 (admin/admin123)"
      [] l = 48 -> "Prometheus: http://localhost:9090"
      [] l = 49 -> "AlertManager: http://localhost:9093"
      [] l = 61 -> "Checking application health..."
      [] l = 65 -> "Checking liveness probe..."
      [] l = 69 -> "Checking readiness probe..."
      [] l = 105 -> "Creating alert silence (requires alertname parameter)..."
      [] l = 106 -> "Usage: make alerts-silence ALERTNAME=HighErrorRate DURATION=1h"
      [] l = 149 -> "Backing up monitoring configuration..."
      [] l = 185 -> "Quick start complete!"
      [] l = 186 -> "Application will be available at: http://localhost:3000"
      [] l = 187 -> "Health check: http://localhost:3000/health"
      [] l = 188 -> "Metrics: http://localhost:3000/metrics"
      [] l = 189 -> "Grafana: http://localhost:3001 (admin/admin123)"

\* The message after `||` on a probe line.
Fallback(l) ==
    CASE l = 62 -> "Application health check failed"
      [] l = 66 -> "Liveness check failed"
      [] l = 70 -> "Readiness check failed"

RequiredMessage == "ALERTNAME parameter is required"

\* `sleep 30` in monitoring-up.
SleepSecs == 30

\* The clock is followed for this many seconds.
MaxClock == 32

\* Number of $(shell date ...) calls in the recipe of target t.
ShellDates(t) ==
    CASE t = "backup-config" -> 3
      [] t = "alerts-silence" -> 2
      [] OTHER -> 0

\* make expands every line of a recipe, $(shell ...) calls included, before
\* it runs the first one.  Only goals without prerequisites call date.
Expanded == Len(stamps) = ShellDates(goal)

\* What `curl -s <url>` can do: its exit status and what it writes to the
\* pipe.  0: a response came (JSON, some other text such as an error page,
\* or nothing); 7: connection refused, nothing written; 28: timed out in
\* mid-transfer, a truncated body written.
CurlOutcomes ==
    {[curl |-> 0, text |-> "json"], [curl |-> 0, text |-> "garbage"],
     [curl |-> 0, text |-> "empty"], [curl |-> 7, text |-> "empty"],
     [curl |-> 28, text |-> "garbage"]}

\* `jq '.'`: 127 from the shell when jq is not installed, 2 on input that is
\* not JSON, 0 on JSON and on empty input.
JqExit(text, installed) ==
    IF ~installed THEN 127 ELSE IF text = "garbage" THEN 2 ELSE 0

\* `a | b` under /bin/sh: the status of the pipeline is that of b.
PipelineStatus(curlExit, jqExit) == jqExit

\* Variant: the test written with -n instead of -z.
GuardTripsWhenSet(a) == a # ""

\* [ -z "$(ALERTNAME)" ]
GuardTrips(a) == a = ""

Started == DOMAIN exits \cup inflight

(***************************************************************************)
(* make actions.                                                           *)
(***************************************************************************)
\* make <g> ALERTNAME=<a>
Invoke ==
    /\ status = "idle"
    /\ \E g \in Goals, a \in AlertNames :
          /\ goal' = g
          /\ alertname' = a
    /\ status' = "running"
    /\ UNCHANGED <<pc, inflight, exits, out, clock, stamps, sleepLeft, waited,
                   probe, posts, made, copied, archived, dtoVars>>

\* One second passes.  Time is followed while the run reads it: between the
\* date calls of the expansion, and while sleep waits.
Tick ==
    /\ status = "running"
    /\ clock < MaxClock
    /\ ~Expanded \/ sleepLeft > 0
    /\ clock' = clock + 1
    /\ sleepLeft' = IF sleepLeft > 0 THEN sleepLeft - 1 ELSE 0
    /\ UNCHANGED <<goal, alertname, status, pc, inflight, exits, out, stamps,
                   waited, probe, posts, made, copied, archived, dtoVars>>

\* One $(shell date +%Y%m%d_%H%M%S) is evaluated: the clock, to the second.
EvalShellDate ==
    /\ status = "running"
    /\ ~Expanded
    /\ stamps' = Append(stamps, clock)
    /\ UNCHANGED <<goal, alertname, status, pc, inflight, exits, out, clock,
                   sleepLeft, waited, probe, posts, made, copied, archived,
                   dtoVars>>

\* make starts the shell of the next recipe line, once the previous one has
\* exited.
Start ==
    /\ status = "running"
    /\ Expanded
    /\ inflight = {}
    /\ pc <= Len(Plan(goal))
    /\ LET l == Plan(goal)[pc] IN
          /\ inflight' = {l}
          /\ sleepLeft' = IF l = 45 THEN SleepSecs ELSE sleepLeft
          /\ posts' = IF l = 108 THEN posts + 1 ELSE posts
    /\ UNCHANGED <<goal, alertname, status, pc, exits, out, clock, stamps,
                   waited, probe, made, copied, archived, dtoVars>>

\* The shell of line l has exited with status code: make goes on to the next
\* line on 0 and gives up on anything else.
Exited(l, code) ==
    /\ inflight' = inflight \ {l}
    /\ exits' = (l :> code) @@ exits
    /\ IF code # 0
       THEN status' = "failed" /\ pc' = pc
       ELSE /\ pc' = pc + 1
            /\ status' = IF pc + 1 > Len(Plan(goal)) THEN "ok" ELSE status

FinishEcho ==
    /\ \E l \in inflight \cap EchoLines :
          /\ out' = Append(out, Text(l))
          /\ Exited(l, 0)
    /\ UNCHANGED <<goal, alertname, clock, stamps, sleepLeft, waited, probe,
                   posts, made, copied, archived, dtoVars>>

\* npm, docker-compose, sleep, curl, mkdir, cp, tar: each may succeed or fail.
\* sleep succeeds only when its time is up; a successful mkdir, cp or tar
\* leaves its directory or archive behind.
FinishCommand ==
    /\ \E l \in inflight \cap CommandLines, code \in {0, 1} :
          /\ (l = 45 /\ code = 0) => sleepLeft = 0
          /\ waited' = IF l = 45 THEN SleepSecs - sleepLeft ELSE waited
          /\ sleepLeft' = IF l = 45 THEN 0 ELSE sleepLeft
          /\ made' = IF l = 150 /\ code = 0 THEN made \cup {stamps[1]} ELSE made
          /\ copied' = IF l = 151 /\ code = 0 THEN copied \cup {stamps[2]} ELSE copied
          /\ archived' = IF l = 152 /\ code = 0 THEN archived \cup {stamps[3]} ELSE archived
          /\ Exited(l, code)
    /\ UNCHANGED <<goal, alertname, out, clock, stamps, probe, posts, dtoVars>>

\* curl -s <url> | jq '.' || echo "<fallback>"
FinishProbe ==
    /\ \E l \in inflight \cap ProbeLines, c \in CurlOutcomes, installed \in BOOLEAN :
          LET jq == JqExit(c.text, installed) IN
          /\ probe' = [ran |-> TRUE, curl |-> c.curl, text |-> c.text, jq |-> jq]
          /\ out' = IF PipelineStatus(c.curl, jq) # 0
                    THEN Append(out, Fallback(l))
                    ELSE out
          /\ Exited(l, 0)
    /\ UNCHANGED <<goal, alertname, clock, stamps, sleepLeft, waited, posts,
                   made, copied, archived, dtoVars>>

\* if [ -z "$(ALERTNAME)" ]; then echo "..."; exit 1; fi
FinishGuard ==
    /\ \E l \in inflight \cap GuardLines :
          IF GuardTrips(alertname)
          THEN out' = Append(out, RequiredMessage) /\ Exited(l, 1)
          ELSE out' = out /\ Exited(l, 0)
    /\ UNCHANGED <<goal, alertname, clock, stamps, sleepLeft, waited, probe,
                   posts, made, copied, archived, dtoVars>>

NextMake ==
    \/ Invoke
    \/ Tick
    \/ EvalShellDate
    \/ Start
    \/ FinishEcho
    \/ FinishCommand
    \/ FinishProbe
    \/ FinishGuard

SpecMake == Init /\ [][NextMake]_vars

(***************************************************************************)
(* Properties of the DTO validation (checked under SpecDto).               *)
(***************************************************************************)
Validated == dtoPhase \in {"accepted", "rejected"}

\* A property counts as absent when the body does not carry it or carries
\* null, the two cases the claims call "missing".
Absent(v) == v \in {Undefined, Null}

UuidValues == {Str(x) : x \in UuidTexts}

TitleOk(p) == p.title.t = "string" /\ p.title.s # <<>>

OthersValid(p, f) ==
    /\ f # "title" => TitleOk(p)
    /\ f # "isPinned" => p.isPinned \in {Bool(TRUE), Bool(FALSE)}
    /\ f # "isClosed" => p.isClosed \in {Bool(TRUE), Bool(FALSE)}
    /\ f # "courseId" => p.courseId \in UuidValues
    /\ f # "categoryId" => p.categoryId \in UuidValues

\* C1: a payload whose title is missing, is not a string or is the empty
\* string is rejected, whatever the other four fields hold.
C1_TitleRequired ==
    (Validated /\ (Absent(body.title) \/ body.title.t # "string" \/ body.title = Str(<<>>)))
        => dtoPhase = "rejected"

\* C1 witness: an empty title is the only thing wrong, and the payload is
\* rejected.
C1_Witness ==
    /\ dtoPhase = "rejected"
    /\ body.title = Str(<<>>)
    /\ OthersValid(body, "title")

\* C2: a payload whose categoryId is missing or is not a UUID string is
\* rejected, so every accepted payload carries a UUID-form categoryId.
C2_CategoryRequired ==
    /\ (Validated /\ body.categoryId \notin UuidValues) => dtoPhase = "rejected"
    /\ dtoPhase = "accepted" => dto.categoryId \in UuidValues

\* C2 witness: categoryId is missing, everything else is valid, and the
\* payload is rejected.
C2_Witness ==
    /\ dtoPhase = "rejected"
    /\ body.categoryId = Undefined
    /\ OthersValid(body, "categoryId")

\* C3: a courseId that is present and is not a UUID string gets the payload
\* rejected; an absent courseId raises no error.
C3_CourseOptional ==
    Validated =>
        /\ (~Absent(body.courseId) /\ body.courseId \notin UuidValues)
              => (dtoPhase = "rejected" /\ <<"courseId", "IsUUID">> \in errors)
        /\ Absent(body.courseId) => \A e \in errors : e[1] # "courseId"
        /\ (Absent(body.courseId) /\ OthersValid(body, "courseId"))
              => dtoPhase = "accepted"

\* C3 witness: a malformed courseId is the only thing wrong, and the payload
\* is rejected.
C3_Witness ==
    /\ dtoPhase = "rejected"
    /\ body.courseId = Str(BadHex)
    /\ OthersValid(body, "courseId")

OnlyRequiredSet(p) ==
    /\ TitleOk(p)
    /\ p.categoryId \in UuidValues
    /\ p.isPinned = Undefined
    /\ p.isClosed = Undefined
    /\ p.courseId = Undefined

\* C4: a payload that sets only a valid title and a valid categoryId is
\* accepted, and isPinned, isClosed and courseId stay absent on the
\* validated object.
C4_MinimalAccepted ==
    (dtoPhase # "idle" /\ OnlyRequiredSet(body)) =>
        /\ Validated => dtoPhase = "accepted"
        /\ dto.isPinned = Undefined
        /\ dto.isClosed = Undefined
        /\ dto.courseId = Undefined

\* C4 witness: such a payload has been validated.
C4_Witness == dtoPhase = "accepted" /\ OnlyRequiredSet(body)

\* C5: a payload with all five fields validly populated is accepted, and the
\* validated object equals the payload.
C5_FullAcceptedUnchanged ==
    (Validated /\ OthersValid(body, "none")) =>
        (dtoPhase = "accepted" /\ dto = body)

\* C5 witness: a fully populated payload, with an upper-case UUID, accepted.
C5_Witness ==
    /\ dtoPhase = "accepted"
    /\ OthersValid(body, "none")
    /\ body.categoryId = Str(UuidUpper)

\* C9: for each of isPinned and isClosed, a present non-boolean value gets
\* the payload rejected, and an absent flag raises no error, whatever the
\* other flag holds.
C9_FlagsOptionalBoolean ==
    Validated =>
        \A f \in {"isPinned", "isClosed"} :
            /\ (~Absent(body[f]) /\ body[f].t # "boolean")
                  => (dtoPhase = "rejected" /\ <<f, "IsBoolean">> \in errors)
            /\ Absent(body[f]) => \A e \in errors : e[1] # f

\* C9 witness: isPinned absent and isClosed a text; only isClosed is
\* reported.
C9_Witness ==
    /\ dtoPhase = "rejected"
    /\ body.isPinned = Undefined
    /\ body.isClosed = Str(TrueText)
    /\ errors = {<<"isClosed", "IsBoolean">>}

(***************************************************************************)
(* Properties of the make runs (checked under SpecMake).                   *)
(***************************************************************************)
Finished == status \in {"ok", "failed"}

Printed(m) == m \in Range(out)

Succeeded(l) == l \in DOMAIN exits /\ exits[l] = 0

\* C6: whenever the curl of a probe line fails, the line prints its
\* fallback message.
C6_FallbackOnCurlFailure ==
    \A l \in ProbeLines :
        (l \in DOMAIN exits /\ probe.curl # 0) => Printed(Fallback(l))

\* C7: with ALERTNAME empty the run prints the message, exits nonzero and
\* never sends the POST; with ALERTNAME set the guard passes and the POST is
\* sent.
C7_AlertnameGuard ==
    goal = "alerts-silence" =>
        /\ alertname = "" =>
              /\ posts = 0
              /\ 108 \notin Started
              /\ Finished => (status = "failed" /\ Printed(RequiredMessage))
        /\ (alertname # "" /\ Finished) =>
              /\ Succeeded(107)
              /\ ~Printed(RequiredMessage)
              /\ posts = 1

\* C7 witness: the run without ALERTNAME has ended.
C7_Witness ==
    /\ goal = "alerts-silence"
    /\ alertname = ""
    /\ status = "failed"
    /\ Printed(RequiredMessage)

\* Line k comes before line l in the plan of the run.
Before(k, l) ==
    \E i, j \in DOMAIN Plan(goal) : i < j /\ Plan(goal)[i] = k /\ Plan(goal)[j] = l

\* C8: recipe lines run one at a time, in order; in quick-start install is
\* over before monitoring-up begins and the closing message follows both;
\* in monitoring-up the ready message follows a successful docker-compose up
\* and a full 30 second wait; nothing starts after a failed line.
C8_Sequential ==
    /\ Cardinality(inflight) <= 1
    /\ goal = "quick-start" =>
          \A l \in Started \cap Range(Recipe("monitoring-up")) :
              \A k \in Range(Recipe("install")) : Succeeded(k)
    /\ Printed(Text(185)) =>
          \A k \in Range(Recipe("install")) \cup Range(Recipe("monitoring-up")) :
              Succeeded(k)
    /\ (goal \in {"monitoring-up", "quick-start"} /\ Printed(Text(46))) =>
          (Succeeded(43) /\ Succeeded(45) /\ waited >= SleepSecs)
    /\ \A k \in DOMAIN exits :
          exits[k] # 0 =>
              /\ status = "failed"
              /\ \A l \in Started : ~Before(k, l)
    /\ \A l \in Started : \A k \in Range(Plan(goal)) : Before(k, l) => Succeeded(k)

\* C8 witness: quick-start has run to its end.
C8_Witness ==
    /\ goal = "quick-start"
    /\ status = "ok"
    /\ Printed(Text(185))
    /\ Printed(Text(46))

\* C10: in backup-config the directory mkdir creates is the one cp copies
\* into, and the archive name carries the same timestamp.
C10_TimestampsAgree ==
    (goal = "backup-config" /\ status = "ok") =>
        (made = copied /\ archived = made)

====
